---------------------------- MODULE Spec2Model ----------------------------
(***************************************************************************)
(* A model of ladder's proxy exchange orchestrator (package proxychain):   *)
(* the ProxyChain struct, URL resolution in SetCtx/extractUrl, the request *)
(* and response modifier loops of _execute, abort and _reset.              *)
(*                                                                         *)
(* Strings are sequences of one-character tokens.  A Go pointer or slice   *)
(* that may be nil is the empty tuple <<>> when nil and <<v>> when set.    *)
(* A Go run-time panic (a nil dereference) is the call result "panic"; the *)
(* deferred calls of the panicking frames still run, as in Go.             *)
(***************************************************************************)
EXTENDS Integers, Sequences, FiniteSets, TLC

NULL == <<>>
Some(v) == <<v>>
IsNil(x) == x = <<>>
Val(x) == x[1]

\* The element of a one-element set: Pick({F(x) : x \in {e}}) is F(e) with e
\* computed once.
Pick(S) == CHOOSE x \in S : TRUE

(***************************************************************************)
(* String helpers (package strings).                                       *)
(***************************************************************************)
\* strings.Index and strings.LastIndex for one byte, 1-based; 0 when absent.
IndexOf(s, c) ==
    IF \E i \in 1..Len(s) : s[i] = c
    THEN CHOOSE i \in 1..Len(s) : s[i] = c /\ \A j \in 1..(i - 1) : s[j] # c
    ELSE 0

LastIndexOf(s, c) ==
    IF \E i \in 1..Len(s) : s[i] = c
    THEN CHOOSE i \in 1..Len(s) : s[i] = c /\ \A j \in (i + 1)..Len(s) : s[j] # c
    ELSE 0

Contains(s, c) == IndexOf(s, c) # 0

Count(s, c) == Cardinality({i \in 1..Len(s) : s[i] = c})

HasPrefix(s, p) == Len(s) >= Len(p) /\ SubSeq(s, 1, Len(p)) = p

TrimPrefix(s, p) == IF HasPrefix(s, p) THEN SubSeq(s, Len(p) + 1, Len(s)) ELSE s

\* strings.Cut(s, c): the text before the first c and the text after it.
CutBefore(s, c) == IF Contains(s, c) THEN SubSeq(s, 1, IndexOf(s, c) - 1) ELSE s
CutAfter(s, c) == IF Contains(s, c) THEN SubSeq(s, IndexOf(s, c) + 1, Len(s)) ELSE <<>>

(***************************************************************************)
(* Character classes of net/url over the model's alphabet.  Inbound text   *)
(* uses  h F f 2 : / ? %  ; the tokens QUOTE, xF2 and xFF are the bytes    *)
(* 0x22, 0xF2 and 0xFF, which only percent-decoding produces.              *)
(***************************************************************************)
Letters == {"h", "F", "f"}
Digits == {"2"}
HexDigits == {"2", "F", "f"}

ishex(c) == c \in HexDigits

\* unhex of the first digit of an escape, as a number.
unhex(c) == IF c = "2" THEN 2 ELSE 15

\* The byte that the escape %ab stands for.
UnescapeByte(a, b) ==
    IF a = "2" /\ b = "2" THEN "QUOTE"
    ELSE IF a = "2" THEN "/"
    ELSE IF b = "2" THEN "xF2"
    ELSE "xFF"

\* The escape written for a byte by escape(): "%" and two upper-case digits.
EscapeByte(c) ==
    CASE c = "QUOTE" -> <<"%", "2", "2">>
      [] c = "/"     -> <<"%", "2", "F">>
      [] c = "xF2"   -> <<"%", "F", "2">>
      [] c = "xFF"   -> <<"%", "F", "F">>
      [] c = "?"     -> <<"%", "3", "F">>
      [] c = ":"     -> <<"%", "3", "A">>
      [] c = "%"     -> <<"%", "2", "5">>
      [] OTHER       -> <<c>>

ToLower(s) == [i \in 1..Len(s) |-> IF s[i] = "F" THEN "f" ELSE s[i]]

\* shouldEscape(c, mode) for mode "path" and "host".
shouldEscape(c, mode) ==
    IF c \in Letters \cup Digits THEN FALSE
    ELSE IF mode = "host" THEN c \notin {":", "QUOTE"}
    ELSE c \notin {"/", ":"}

\* Every "%" of s is followed by two hex digits.
EscapesWellFormed(s) ==
    \A i \in 1..Len(s) :
        s[i] = "%" => (i + 2 <= Len(s) /\ ishex(s[i + 1]) /\ ishex(s[i + 2]))

\* The positions of s where a byte or an escape starts.
Starts(s) ==
    {i \in 1..Len(s) : ~(i > 1 /\ s[i - 1] = "%") /\ ~(i > 2 /\ s[i - 2] = "%")}

\* The n-th smallest element of a set of numbers.
Nth(S, n) == CHOOSE i \in S : Cardinality({j \in S : j <= i}) = n

\* The byte that starts at position i of s.
DecodeAt(s, i) == IF s[i] = "%" THEN UnescapeByte(s[i + 1], s[i + 2]) ELSE s[i]

\* The bytes of s with every escape replaced by its byte.
Decode(s) == [n \in 1..Cardinality(Starts(s)) |-> DecodeAt(s, Nth(Starts(s), n))]

\* unescape(s, mode): [ok, s].  In host mode an escape below %80 is an error,
\* and so is a raw byte that a host may not hold.
unescape(s, mode) ==
    IF ~EscapesWellFormed(s) THEN [ok |-> FALSE, s |-> <<>>]
    ELSE IF mode = "host"
            /\ \E i \in 1..Len(s) :
                  \/ s[i] = "%" /\ unhex(s[i + 1]) < 8
                  \/ s[i] \notin {"%", "xF2", "xFF"} /\ shouldEscape(s[i], "host")
         THEN [ok |-> FALSE, s |-> <<>>]
    ELSE [ok |-> TRUE, s |-> Decode(s)]

\* url.QueryUnescape
QueryUnescape(s) == unescape(s, "query")

\* escape(s, mode): every byte that shouldEscape names is written as an escape.
escape(s, mode) ==
    LET acc[i \in 0..Len(s)] ==
            IF i = 0 THEN <<>>
            ELSE acc[i - 1] \o (IF shouldEscape(s[i], mode) THEN EscapeByte(s[i]) ELSE <<s[i]>>)
    IN acc[Len(s)]

(***************************************************************************)
(* net/url: the URL struct, url.Parse and URL.String.                      *)
(***************************************************************************)
MkURL(scheme, opaque, host, path, rawpath, omit, force, query) ==
    [Scheme |-> scheme, Opaque |-> opaque, Host |-> host, Path |-> path,
     RawPath |-> rawpath, OmitHost |-> omit, ForceQuery |-> force, RawQuery |-> query]

\* The positions of s that end the scan of getScheme: a byte that is no
\* letter, or a digit in first place.
SchemeStops(s) ==
    {k \in 1..Len(s) : ~(s[k] \in Letters \/ (s[k] \in Digits /\ k # 1))}

\* Where the scan of getScheme ends.
\* 0: no scheme; -1: error (missing protocol scheme); k > 0: the colon is at k.
SchemeEnd(s, stop) ==
    IF stop = 0 THEN 0
    ELSE IF s[stop] = ":" THEN (IF stop = 1 THEN -1 ELSE stop)
    ELSE 0

\* getScheme: [ok, scheme, rest].
getScheme(s) ==
    LET k == SchemeEnd(s, IF SchemeStops(s) = {} THEN 0 ELSE Nth(SchemeStops(s), 1)) IN
    IF k = -1 THEN [ok |-> FALSE, scheme |-> <<>>, rest |-> <<>>]
    ELSE IF k = 0 THEN [ok |-> TRUE, scheme |-> <<>>, rest |-> s]
    ELSE [ok |-> TRUE, scheme |-> SubSeq(s, 1, k - 1), rest |-> SubSeq(s, k + 1, Len(s))]

\* validOptionalPort
validOptionalPort(port) ==
    port = <<>> \/ (port[1] = ":" /\ \A i \in 2..Len(port) : port[i] \in Digits)

\* parseHost (no userinfo, no IP literal in the alphabet): [ok, s].
parseHost(host) ==
    LET i == LastIndexOf(host, ":") IN
    IF i # 0 /\ ~validOptionalPort(SubSeq(host, i, Len(host)))
    THEN [ok |-> FALSE, s |-> <<>>]
    ELSE unescape(host, "host")

ParseFail == [ok |-> FALSE, url |-> MkURL(<<>>, <<>>, <<>>, <<>>, <<>>, FALSE, FALSE, <<>>)]

\* setPath and the end of parse: h is the parsed host, p the unescaped path.
parseEnd(scheme, h, rest, p, omit, force, query) ==
    IF ~h.ok \/ ~p.ok THEN ParseFail
    ELSE [ok |-> TRUE,
          url |-> MkURL(scheme, <<>>, h.s, p.s,
                        IF escape(p.s, "path") = rest THEN <<>> ELSE rest,
                        omit, force, query)]

\* parse, at an authority: after is the text behind the leading "//".
parseAuthority(scheme, after, force, query) ==
    Pick({parseEnd(scheme, h, rest, p, FALSE, force, query) :
            h \in {parseHost(CutBefore(after, "/"))},
            rest \in {SubSeq(after, Len(CutBefore(after, "/")) + 1, Len(after))},
            p \in {unescape(SubSeq(after, Len(CutBefore(after, "/")) + 1, Len(after)), "path")}})

\* parse, once the scheme and the query are cut off.
parseRest(scheme, rest, force, query) ==
    IF ~HasPrefix(rest, <<"/">>) /\ scheme # <<>>
    THEN [ok |-> TRUE, url |-> MkURL(scheme, rest, <<>>, <<>>, <<>>, FALSE, force, query)]
    ELSE IF ~HasPrefix(rest, <<"/">>) /\ Contains(CutBefore(rest, "/"), ":")
    THEN ParseFail
    ELSE IF (scheme # <<>> \/ ~HasPrefix(rest, <<"/", "/", "/">>))
               /\ HasPrefix(rest, <<"/", "/">>)
    THEN Pick({parseAuthority(scheme, after, force, query) :
                 after \in {SubSeq(rest, 3, Len(rest))}})
    ELSE Pick({parseEnd(scheme, [ok |-> TRUE, s |-> <<>>], rest, p,
                        scheme # <<>> /\ HasPrefix(rest, <<"/">>), force, query) :
                 p \in {unescape(rest, "path")}})

\* parse, once the scheme is cut off: a lone final "?" forces an empty query.
parseQuery(scheme, rest) ==
    IF Len(rest) > 0 /\ rest[Len(rest)] = "?" /\ Count(rest, "?") = 1
    THEN Pick({parseRest(scheme, r, TRUE, <<>>) : r \in {SubSeq(rest, 1, Len(rest) - 1)}})
    ELSE Pick({parseRest(scheme, r, FALSE, q) :
                 r \in {CutBefore(rest, "?")}, q \in {CutAfter(rest, "?")}})

parseScheme(sch) ==
    IF ~sch.ok THEN ParseFail
    ELSE Pick({parseQuery(scheme, rest) : scheme \in {ToLower(sch.scheme)}, rest \in {sch.rest}})

\* url.Parse(rawURL): [ok, url].
Parse(rawURL) ==
    Pick({Pick({parseScheme(sch) : sch \in {getScheme(raw)}}) : raw \in {rawURL}})

\* validEncoded(s, encodePath)
validEncoded(s) == \A i \in 1..Len(s) : s[i] = "%" \/ ~shouldEscape(s[i], "path")

\* URL.EscapedPath
EscapedPath(u) ==
    IF u.RawPath # <<>> /\ validEncoded(u.RawPath)
          /\ unescape(u.RawPath, "path").ok /\ unescape(u.RawPath, "path").s = u.Path
    THEN u.RawPath
    ELSE escape(u.Path, "path")

\* URL.String
String(u) ==
    LET sch  == IF u.Scheme # <<>> THEN u.Scheme \o <<":">> ELSE <<>>
        path == EscapedPath(u)
        auth == IF (u.Scheme # <<>> \/ u.Host # <<>>) /\ ~(u.OmitHost /\ u.Host = <<>>)
                THEN (IF u.Host # <<>> \/ u.Path # <<>> THEN <<"/", "/">> ELSE <<>>)
                        \o escape(u.Host, "host")
                ELSE <<>>
        sep  == IF path # <<>> /\ path[1] # "/" /\ u.Host # <<>> THEN <<"/">> ELSE <<>>
        dot  == IF sch \o auth \o sep = <<>> /\ Contains(CutBefore(path, "/"), ":")
                THEN <<".", "/">> ELSE <<>>
        body == IF u.Opaque # <<>> THEN u.Opaque ELSE auth \o sep \o dot \o path
        qry  == IF u.ForceQuery \/ u.RawQuery # <<>> THEN <<"?">> \o u.RawQuery ELSE <<>>
    IN sch \o body \o qry

(***************************************************************************)
(* Bounds and input sets.                                                  *)
(***************************************************************************)
\* Longest modifier list handed to SetReqMods / SetResMods.
MaxReqMods == 2
MaxResMods == 2
\* Cap on the length a modifier list may grow to through AddReqMods/AddResMods.
MaxReqLen == 8
MaxResLen == 10

SeqsUpTo(S, n) == UNION {[1..k -> S] : k \in 0..n}

\* Request modifiers a caller configures.  BuildReq and Fail are caller-written
\* ReqMods: one assigns px.Req, one returns an error.
ReqChoices == {"BuildReq", "Fail", "MasqueradeAsGoogleBot"}
\* Response modifiers a caller configures.  Rewrite and ResFail are
\* caller-written ResMods: one replaces px.Body, one returns an error.
ResChoices == {"Rewrite", "ResFail", "BypassCSP"}

\* Bodies the upstream server may answer with.
UpstreamBodies == {<<>>, <<"a">>}

\* Values of the wildcard route parameter, ctx.Params("*").
AbsCapture == <<"h", ":", "/", "/", "h", "/", "h", "?", "h">>
RelCapture == <<"h", "/", "h", "?", "h">>
Captures ==
    { AbsCapture,
      <<"h", ":", "%", "2", "F", "%", "2", "F", "h", "/", "h">>,
      <<"h", ":", "/", "/", "h", "/", "h", "?", "%", "h">>,
      <<"F", ":", "/", "/", "h">>,
      <<"h", ":", "h">>,
      RelCapture,
      <<"/", "h", "/", "h">>,
      <<"%", "h", "h">>,
      <<":", "h">> }

\* Values of the referer header, ctx.Get("referer"); <<>> when the header is absent.
GoodReferer == <<"h", ":", "/", "/", "h", "/", "F", ":", "/", "/", "f", "/", "h">>
Referers ==
    { <<>>,
      GoodReferer,
      <<"/", "h", ":", "/", "/", "h", "/", "h">>,
      <<"h", ":", "/", "/", "h", ":", "h", "/", "h">>,
      <<"h", ":", "/", "/", "h", "/", "h", "/", "h">>,
      <<"h", ":", "/", "/", "h", "/", ":", "h">> }

(***************************************************************************)
(* Errors, the caller's response, and the ProxyChain struct.               *)
(***************************************************************************)
\* An error created by errors.New / fmt.Errorf, or returned by a modifier.
NewErr(msg) == [msg |-> msg, url |-> <<>>, cause |-> ""]
\* fmt.Errorf("ProxyChain error for '%s': %s", url, cause)
WrapErr(url, cause) == [msg |-> "ProxyChain error for", url |-> url, cause |-> cause]

\* What has been written to the caller's response.
ErrPage(e) == [kind |-> "error", url |-> e.url, cause |-> e.cause, data |-> <<>>]
BodyPage(b) == [kind |-> "body", url |-> <<>>, cause |-> "", data |-> b]

\* A fresh fiber.Ctx: status 200, nothing sent, no response header set.
NewCtx == [status |-> 200, sent |-> NULL, hdr |-> {}]

\* NewProxyChain(): every field zero but Client, which is defaultClient.
NewProxyChain(client) ==
    [Ctx |-> NULL, URL |-> NULL, Client |-> client, Req |-> NULL, Resp |-> NULL,
     Body |-> NULL, reqMods |-> <<>>, resMods |-> <<>>, ruleset |-> NULL,
     verbose |-> FALSE, abort_err |-> NULL]

VARIABLES
    px,      \* the ProxyChain instance
    ctx,     \* the fiber.Ctx of the latest inbound request (the caller's response)
    pc,      \* position inside Execute: "idle", "reqmods", "read", "resmods"
    call,    \* which of Execute / ExecuteAPIContent is running
    rng,     \* the slice the running for-range loop iterates (taken at loop start)
    idx,     \* index of the next element of rng
    conn,    \* the upstream response body: "none", "open", "closed"
    ret,     \* what the latest call returned
    open,    \* a context was bound and no Execute has returned since
    bind,    \* the inputs and outcome of this exchange's SetCtx
    trace,   \* the modifier and dispatch calls of this exchange, in order
    peer     \* the same fields of a second worker, which has its own instance

vars == <<px, ctx, pc, call, rng, idx, conn, ret, open, bind, trace, peer>>

Ret(op, out, err) == [op |-> op, out |-> out, err |-> err]
Ev(ev, k, kind, out) == [ev |-> ev, k |-> k, kind |-> kind, out |-> out, data |-> <<>>]
\* The event of io.ReadAll returning the upstream body.
EvRead(data) == [ev |-> "read", k |-> 0, kind |-> "", out |-> "nil", data |-> data]

\* Mutant of Reset: the buffered body is not cleared.
ResetKeepBody(p) ==
    [p EXCEPT !.abort_err = NULL, !.Req = NULL, !.Resp = NULL, !.Ctx = NULL, !.URL = NULL]

\* Mutant of Reset: the configuration is cleared with the per-exchange fields.
ResetDropConfig(p) == NewProxyChain(NULL)

\* _reset
Reset(p) ==
    [p EXCEPT !.abort_err = NULL, !.Body = NULL, !.Req = NULL, !.Resp = NULL,
              !.Ctx = NULL, !.URL = NULL]

\* abort(err): 500 and the error page to the caller, then the deferred _reset.
\* p.Ctx.Response() and p.URL.String() dereference nil when the field is unset.
Abort(p, c, msg) ==
    IF IsNil(p.Ctx)
    THEN [px |-> Reset(p), ctx |-> c, out |-> "panic", err |-> NULL]
    ELSE IF IsNil(p.URL)
    THEN [px |-> Reset(p), ctx |-> [c EXCEPT !.status = 500], out |-> "panic", err |-> NULL]
    ELSE Pick({[px  |-> Reset(p),
                ctx |-> [c EXCEPT !.status = 500, !.sent = Some(ErrPage(e))],
                out |-> "error", err |-> Some(e)] :
               e \in {WrapErr(String(Val(p.URL)), msg)}})

\* extractUrl, the relative case once the referer's embedded URL is parsed.
extractReal(p, u, realUrl) ==
    IF ~realUrl.ok
    THEN [err |-> Some("error parsing real URL from referer"), URL |-> p.URL]
    ELSE IF u.Scheme = <<>>
    THEN [err |-> Some("ProxyChain failed to extract url from relative path"),
          URL |-> Some(MkURL(realUrl.url.Scheme, <<>>, realUrl.url.Host, u.Path,
                             <<>>, FALSE, FALSE, u.RawQuery))]
    ELSE [err |-> NULL,
          URL |-> Some(MkURL(realUrl.url.Scheme, <<>>, realUrl.url.Host, u.Path,
                             <<>>, FALSE, FALSE, u.RawQuery))]

\* extractUrl, the relative case once the referer is parsed.
extractRelative(p, u, refererUrl) ==
    IF ~refererUrl.ok \/ refererUrl.url.Host = <<>>
    THEN [err |-> Some("error parsing referer URL from req"), URL |-> p.URL]
    ELSE extractReal(p, u, Parse(TrimPrefix(refererUrl.url.Path, <<"/">>)))

\* extractUrl, once the capture is parsed.
extractParsed(p, urlQuery, referer) ==
    IF ~urlQuery.ok
    THEN [err |-> Some("error parsing request URL"), URL |-> p.URL]
    ELSE IF urlQuery.url.Scheme # <<>>
    THEN [err |-> NULL, URL |-> Some(urlQuery.url)]
    ELSE extractRelative(p, urlQuery.url, Parse(referer))

\* The capture URL-decoded, or raw when decoding fails.
reqUrl(dec, capture) == IF dec.ok THEN dec.s ELSE capture

\* extractUrl: [err, URL], the error returned and the value p.URL is left with.
extractUrl(p, capture, referer) ==
    extractParsed(p, Parse(reqUrl(QueryUnescape(capture), capture)), referer)

(***************************************************************************)
(* Configuration operations.                                               *)
(***************************************************************************)
\* AddReqMods / AddResMods as a function of the struct (also called by modifiers).
AddReqModsTo(p, mods) == [p EXCEPT !.reqMods = p.reqMods \o mods]
AddResModsTo(p, mods) == [p EXCEPT !.resMods = p.resMods \o mods]

(***************************************************************************)
(* Modifiers.  A request modifier maps the struct to [px, out, msg]; a     *)
(* response modifier maps the struct and the caller's response to          *)
(* [px, ctx, out, msg].  out is "nil", "error" or "panic".                 *)
(***************************************************************************)
\* px.Req.Header.Set(key, value); a nil px.Req is dereferenced.
SetReqHeader(p, key, value) ==
    IF IsNil(p.Req) THEN [px |-> p, out |-> "panic", msg |-> ""]
    ELSE LET r   == Val(p.Req)
             hdr == {h \in r.Header : h[1] # key} \cup {<<key, value>>}
         IN [px |-> [p EXCEPT !.Req = Some([r EXCEPT !.Header = hdr])],
             out |-> "nil", msg |-> ""]

\* px.Req.Header.Del(key)
DelReqHeader(p, key) ==
    IF IsNil(p.Req) THEN [px |-> p, out |-> "panic", msg |-> ""]
    ELSE LET r == Val(p.Req) IN
         [px |-> [p EXCEPT !.Req = Some([r EXCEPT !.Header = {h \in r.Header : h[1] # key}])],
          out |-> "nil", msg |-> ""]

\* The modifiers masqueradeAsTrustedBot appends.
BotMods == <<"SpoofUserAgent", "SpoofXForwardedFor", "SpoofReferrer">>

\* const waybackUrl, const archivistUrl: the archive's prefix.
waybackUrl == <<"f", ":", "/", "/", "f", "/">>
archivistUrl == <<"f", ":", "/", "/", "2", "/">>

\* px.URL.RawQuery = ""
ClearQuery(p) == [p EXCEPT !.URL = Some([Val(p.URL) EXCEPT !.RawQuery = <<>>])]

\* newURL, err := url.Parse(prefix + px.URL.String()), the query already cleared
\* in q; then AddReqMods(more) and px.URL = newURL.
RequestArchive(q, prefix, more) ==
    Pick({IF ~newURL.ok THEN [px |-> q, out |-> "error", msg |-> "parse"]
          ELSE [px |-> [AddReqModsTo(q, more) EXCEPT !.URL = Some(newURL.url)],
                out |-> "nil", msg |-> ""] :
            newURL \in {Parse(prefix \o String(Val(q.URL)))}})

\* RequestWaybackMachine
RequestWaybackMachine(p) ==
    Pick({RequestArchive(q, waybackUrl, <<>>) : q \in {ClearQuery(p)}})

\* RequestArchiveIs
RequestArchiveIs(p) ==
    Pick({RequestArchive(q, archivistUrl, <<"ResolveWithGoogleDoH">>) : q \in {ClearQuery(p)}})

\* ResolveWithGoogleDoH: swaps the client for one that resolves over DoH.
ResolveWithGoogleDoH(p) ==
    [px |-> [p EXCEPT !.Client = Some("doh")], out |-> "nil", msg |-> ""]

\* ModifyDomainWithRegex(match, replacement), the expression matching the whole host.
ModifyDomainWithRegex(p, replacement) ==
    [px |-> [p EXCEPT !.URL = Some([Val(p.URL) EXCEPT !.Host = replacement])],
     out |-> "nil", msg |-> ""]

\* A caller-written ReqMod that leaves the target URL without a scheme.
DropScheme(p) ==
    [px |-> [p EXCEPT !.URL = Some([Val(p.URL) EXCEPT !.Scheme = <<>>])],
     out |-> "nil", msg |-> ""]

\* A caller-written ReqMod that appends itself to the list it runs from.
Again(p) == [px |-> AddReqModsTo(p, <<"Again">>), out |-> "nil", msg |-> ""]

ApplyReqMod(kind, p) ==
    CASE kind = "RequestWaybackMachine" -> RequestWaybackMachine(p)
      [] kind = "Again" -> Again(p)
      [] kind = "RequestArchiveIs" -> RequestArchiveIs(p)
      [] kind = "ResolveWithGoogleDoH" -> ResolveWithGoogleDoH(p)
      [] kind = "ModifyDomainWithRegex" -> ModifyDomainWithRegex(p, <<"f">>)
      [] kind = "DropScheme" -> DropScheme(p)
      [] kind = "BuildReq" ->
            [px |-> [p EXCEPT !.Req = Some([URL |-> Val(p.URL), Header |-> {}])],
             out |-> "nil", msg |-> ""]
      [] kind = "Fail" -> [px |-> p, out |-> "error", msg |-> "request modifier failed"]
      [] kind = "MasqueradeAsGoogleBot" ->
            [px |-> AddReqModsTo(p, BotMods), out |-> "nil", msg |-> ""]
      [] kind = "SpoofUserAgent" -> SetReqHeader(p, "user-agent", "bot-ua")
      [] kind = "SpoofXForwardedFor" -> SetReqHeader(p, "X-FORWARDED-FOR", "bot-ip")
      [] kind = "SpoofReferrer" -> DelReqHeader(p, "referrer")

\* The modifiers BypassCSP appends.
CSPMods == <<"AllowOrigin", "ExposeHeaders", "AllowCredentials", "AllowMethods">>

\* ModifyResponseHeader(key, value): delete when value is "", set otherwise.
ModifyResponseHeader(p, c, key, value) ==
    LET rest == {h \in c.hdr : h[1] # key} IN
    [px |-> p,
     ctx |-> [c EXCEPT !.hdr = IF value = "" THEN rest ELSE rest \cup {<<key, value>>}],
     out |-> "nil", msg |-> ""]

ApplyResMod(kind, p, c) ==
    CASE kind = "Rewrite" ->
            [px |-> [p EXCEPT !.Body = Some(<<"R">> \o Val(p.Body))], ctx |-> c,
             out |-> "nil", msg |-> ""]
      [] kind = "ResFail" ->
            [px |-> p, ctx |-> c, out |-> "error", msg |-> "response modifier failed"]
      [] kind = "BypassCSP" ->
            [px |-> AddResModsTo(p, CSPMods), ctx |-> c, out |-> "nil", msg |-> ""]
      [] kind = "AllowOrigin" ->
            ModifyResponseHeader(p, c, "Access-Control-Allow-Origin", "*")
      [] kind = "ExposeHeaders" ->
            ModifyResponseHeader(p, c, "Access-Control-Expose-Headers", "*")
      [] kind = "AllowCredentials" ->
            ModifyResponseHeader(p, c, "Access-Control-Allow-Credentials", "true")
      [] kind = "AllowMethods" ->
            ModifyResponseHeader(p, c, "Access-Control-Allow-Methods", "")

\* How many entries one pass over the list appends to it.
RECURSIVE Growth(_, _, _)
Growth(list, kind, n) ==
    IF list = <<>> THEN 0
    ELSE (IF Head(list) = kind THEN n ELSE 0) + Growth(Tail(list), kind, n)

\* The lists have room for what one exchange appends (the model's cap).
Room(p) ==
    /\ Len(p.reqMods) + Growth(p.reqMods, "MasqueradeAsGoogleBot", Len(BotMods))
                       + Growth(p.reqMods, "RequestArchiveIs", 1)
                       + Growth(p.reqMods, "Again", 1) <= MaxReqLen
    /\ Len(p.resMods) + Growth(p.resMods, "BypassCSP", Len(CSPMods)) <= MaxResLen

(***************************************************************************)
(* Initial state: DefaultClient() has set the package's defaultClient and   *)
(* NewProxyChain() has built the instance.                                 *)
(***************************************************************************)
\* DefaultClient(): the package-level client.
defaultClient == Some("default")

\* A worker that has just made its instance: px := NewProxyChain().
NewWorker ==
    [px |-> NewProxyChain(defaultClient), ctx |-> NewCtx, pc |-> "idle", call |-> "",
     rng |-> <<>>, idx |-> 1, conn |-> "none", ret |-> Ret("NewProxyChain", "nil", NULL),
     open |-> FALSE, bind |-> NULL, trace |-> <<>>]

Init ==
    /\ px = NewWorker.px
    /\ ctx = NewWorker.ctx
    /\ pc = NewWorker.pc
    /\ call = NewWorker.call
    /\ rng = NewWorker.rng
    /\ idx = NewWorker.idx
    /\ conn = NewWorker.conn
    /\ ret = NewWorker.ret
    /\ open = NewWorker.open
    /\ bind = NewWorker.bind
    /\ trace = NewWorker.trace
    /\ peer = NewWorker

(***************************************************************************)
(* Operations.  The modifier lists are configured at set-up, before the    *)
(* instance serves its first request.                                      *)
(***************************************************************************)
AtSetup == pc = "idle" /\ ret.op = "NewProxyChain"

SetReqMods(mods) ==
    /\ AtSetup
    /\ px' = [px EXCEPT !.reqMods = mods]
    /\ UNCHANGED <<ctx, pc, call, rng, idx, conn, ret, open, bind, trace>>
    /\ UNCHANGED peer

AddReqMods(mods) ==
    /\ AtSetup
    /\ Len(px.reqMods) + Len(mods) <= MaxReqMods
    /\ px' = AddReqModsTo(px, mods)
    /\ UNCHANGED <<ctx, pc, call, rng, idx, conn, ret, open, bind, trace>>
    /\ UNCHANGED peer

SetResMods(mods) ==
    /\ AtSetup
    /\ px' = [px EXCEPT !.resMods = mods]
    /\ UNCHANGED <<ctx, pc, call, rng, idx, conn, ret, open, bind, trace>>
    /\ UNCHANGED peer

AddResMods(mods) ==
    /\ AtSetup
    /\ Len(px.resMods) + Len(mods) <= MaxResMods
    /\ px' = AddResModsTo(px, mods)
    /\ UNCHANGED <<ctx, pc, call, rng, idx, conn, ret, open, bind, trace>>
    /\ UNCHANGED peer

\* Clients a caller hands to SetClient; a nil *http.Client is accepted.
Clients == {Some("custom"), NULL}

SetClient(httpClient) ==
    /\ AtSetup
    /\ px' = [px EXCEPT !.Client = httpClient]
    /\ UNCHANGED <<ctx, pc, call, rng, idx, conn, ret, open, bind, trace>>
    /\ UNCHANGED peer

SetVerbose ==
    /\ AtSetup
    /\ px' = [px EXCEPT !.verbose = TRUE]
    /\ UNCHANGED <<ctx, pc, call, rng, idx, conn, ret, open, bind, trace>>
    /\ UNCHANGED peer

AddRuleset(rs) ==
    /\ AtSetup
    /\ px' = [px EXCEPT !.ruleset = Some(rs)]
    /\ UNCHANGED <<ctx, pc, call, rng, idx, conn, ret, open, bind, trace>>
    /\ UNCHANGED peer

\* SetCtx, after extractUrl returned r with p.Ctx and p.URL assigned in p1.
SetCtxEnd(r, p1, a) ==
    IF IsNil(r.err)
    THEN /\ px' = p1
         /\ ctx' = NewCtx
         /\ ret' = Ret("SetCtx", "nil", NULL)
    ELSE /\ px' = IF a.out = "panic" THEN a.px ELSE [a.px EXCEPT !.abort_err = a.err]
         /\ ctx' = a.ctx
         /\ ret' = Ret("SetCtx", a.out, a.err)

SetCtxWith(r) ==
    SetCtxEnd(r, [px EXCEPT !.Ctx = Some("ctx"), !.URL = r.URL],
              Abort([px EXCEPT !.Ctx = Some("ctx"), !.URL = r.URL], NewCtx,
                    IF IsNil(r.err) THEN "" ELSE Val(r.err)))

\* SetCtx(ctx) for a new inbound request with this route capture and referer.
SetCtx(capture, referer) ==
    /\ pc = "idle"
    /\ SetCtxWith(extractUrl(px, capture, referer))
    /\ bind' = Some([capture |-> capture, referer |-> referer,
                      out |-> ret'.out, err |-> ret'.err])
    /\ open' = TRUE
    /\ trace' = <<>>
    /\ UNCHANGED <<pc, call, rng, idx, conn>>
    /\ UNCHANGED peer

\* What _execute hands back to its caller: the struct, the caller's response,
\* and nil (with the body in px.Body), an error, or a panic.
Executed(p, c, out, err) == [px |-> p, ctx |-> c, out |-> out, err |-> err]

\* Execute around _execute: an error is returned as it is, a body is sent with
\* p.Ctx.Send(*body); the deferred _reset runs in every case.
Execute(r) ==
    [px  |-> Reset(r.px),
     ctx |-> IF r.out = "nil"
             THEN [r.ctx EXCEPT !.sent = Some(BodyPage(Val(r.px.Body)))]
             ELSE r.ctx,
     out |-> r.out, err |-> r.err]

\* Mutant of ExecuteAPIContent: the body is sent inside a structured envelope.
ExecuteAPIContentEnvelope(r) ==
    [px  |-> Reset(r.px),
     ctx |-> IF r.out = "nil"
             THEN [r.ctx EXCEPT !.sent = Some(BodyPage(<<"J">> \o Val(r.px.Body)))]
             ELSE r.ctx,
     out |-> r.out, err |-> r.err]

\* ExecuteAPIContent around _execute: the reader API is a TODO, the body is
\* sent with p.Ctx.Send(*body); the deferred _reset runs in every case.
ExecuteAPIContent(r) ==
    [px  |-> Reset(r.px),
     ctx |-> IF r.out = "nil"
             THEN [r.ctx EXCEPT !.sent = Some(BodyPage(Val(r.px.Body)))]
             ELSE r.ctx,
     out |-> r.out, err |-> r.err]

\* The call that is running, applied to what _execute handed back.
Finish(api, r) == IF api = "ExecuteAPIContent" THEN ExecuteAPIContent(r) ELSE Execute(r)

\* The state a finished call leaves.
Returned(api, w) ==
    /\ px' = w.px
    /\ ctx' = w.ctx
    /\ ret' = Ret(api, w.out, w.err)

\* Execute / ExecuteAPIContent return: the result, after the deferred _reset.
Return(api, p, c, out, err, tr, cn) ==
    /\ Returned(api, Finish(api, Executed(p, c, out, err)))
    /\ call' = ""
    /\ trace' = tr
    /\ conn' = cn
    /\ pc' = "idle"
    /\ open' = FALSE
    /\ rng' = <<>>
    /\ idx' = 1

\* The exchange this Execute belongs to: the open one, or a new one.
ThisTrace == IF open THEN trace ELSE <<>>
ThisBind == IF open THEN bind ELSE NULL
\* The caller's response: the bound one, or that of a request never bound.
ThisCtx == IF open THEN ctx ELSE NewCtx

\* Execute / ExecuteAPIContent up to the request-modifier loop of _execute.
ExecuteBegin(api) ==
    /\ pc = "idle"
    /\ Room(px)
    /\ bind' = ThisBind
    /\ IF IsNil(px.Ctx)
       THEN \* _validate_ctx_is_set aborts
            LET a == Abort(px, ThisCtx, "proxyChain was called without setting a fiber Ctx") IN
            IF a.out = "panic"
            THEN Return(api, a.px, a.ctx, "panic", NULL, ThisTrace, "none")
            ELSE Return(api, a.px, a.ctx, "error", a.err, ThisTrace, "none")
       ELSE IF ~IsNil(px.abort_err)
       THEN Return(api, px, ThisCtx, "error", px.abort_err, ThisTrace, "none")
       ELSE IF IsNil(px.URL)
       THEN Return(api, px, ThisCtx, "panic", NULL, ThisTrace, "none")
       ELSE IF Val(px.URL).Scheme = <<>>
       THEN Return(api, px, ThisCtx, "error", Some(NewErr("request url not set or invalid")),
                   ThisTrace, "none")
       ELSE /\ pc' = "reqmods"
            /\ call' = api
            /\ rng' = px.reqMods
            /\ idx' = 1
            /\ trace' = ThisTrace
            /\ conn' = "none"
            /\ open' = TRUE
            /\ ctx' = ThisCtx
            /\ UNCHANGED <<px, ret>>
    /\ UNCHANGED peer

\* Mutant of ReqModStep: the loop goes on after a modifier returned an error.
ReqModStepIgnoreErr ==
    /\ pc = "reqmods"
    /\ idx <= Len(rng)
    /\ px' = ApplyReqMod(rng[idx], px).px
    /\ idx' = idx + 1
    /\ trace' = Append(trace, Ev("req", idx, rng[idx], ApplyReqMod(rng[idx], px).out))
    /\ UNCHANGED <<ctx, pc, call, rng, conn, ret, open, bind>>
    /\ UNCHANGED peer

\* Mutant of ReqModStep: the loop starts over when it reaches the end of the list.
ReqModStepForever ==
    /\ pc = "reqmods"
    /\ idx <= Len(rng)
    /\ idx' = IF idx = Len(rng) THEN 1 ELSE idx + 1
    /\ UNCHANGED <<px, ctx, pc, call, rng, conn, ret, open, bind, trace>>
    /\ UNCHANGED peer

\* One iteration of "for _, reqMod := range p.reqMods".
ReqModStep ==
    /\ pc = "reqmods"
    /\ idx <= Len(rng)
    /\ \E r \in {ApplyReqMod(rng[idx], px)} : \E a \in {Abort(r.px, ctx, r.msg)} :
       LET tr == Append(trace, Ev("req", idx, rng[idx], r.out))
       IN CASE r.out = "nil" ->
                 /\ px' = r.px
                 /\ idx' = idx + 1
                 /\ trace' = tr
                 /\ UNCHANGED <<ctx, pc, call, rng, conn, ret, open>>
            [] r.out = "error" -> Return(call, a.px, a.ctx, a.out, a.err, tr, conn)
            [] r.out = "panic" -> Return(call, r.px, ctx, "panic", NULL, tr, conn)
    /\ UNCHANGED bind
    /\ UNCHANGED peer

\* What the upstream may answer: a body, and whether reading it fails.
Responses == [data : UpstreamBodies, readErr : BOOLEAN]

\* resp, err := p.Client.Do(p.Req), after the request-modifier loop.
\* A nil Client or a nil Req is dereferenced; a request with no scheme or no
\* host cannot be sent.
Dispatch ==
    /\ pc = "reqmods"
    /\ idx > Len(rng)
    /\ IF IsNil(px.Client) \/ IsNil(px.Req)
       THEN Return(call, px, ctx, "panic", NULL, Append(trace, Ev("do", 0, "", "panic")), conn)
       ELSE \/ \E a \in {Abort(px, ctx, "dispatch failed")} :
               Return(call, a.px, a.ctx, a.out, a.err,
                      Append(trace, Ev("do", 0, "", "error")), conn)
            \/ /\ Val(px.Req).URL.Scheme # <<>> /\ Val(px.Req).URL.Host # <<>>
               /\ \E resp \in Responses :
                     px' = [px EXCEPT !.Resp = Some(resp)]
               /\ pc' = "read"
               /\ conn' = "open"
               /\ trace' = Append(trace, Ev("do", 0, "", "nil"))
               /\ UNCHANGED <<ctx, call, rng, idx, ret, open>>
    /\ UNCHANGED bind
    /\ UNCHANGED peer

\* Mutant of ReadBody: the response modifiers start before the body is read.
ReadBodyLate ==
    /\ pc = "read"
    /\ pc' = "resmods"
    /\ rng' = px.resMods
    /\ idx' = 1
    /\ UNCHANGED <<px, ctx, call, conn, ret, open, bind, trace>>
    /\ UNCHANGED peer

\* Mutant of ReadBody: a failed read is ignored and the exchange goes on.
ReadBodyIgnoreErr ==
    /\ pc = "read"
    /\ px' = [px EXCEPT !.Body = Some(Val(px.Resp).data)]
    /\ pc' = "resmods"
    /\ rng' = px.resMods
    /\ idx' = 1
    /\ trace' = Append(trace, IF Val(px.Resp).readErr THEN Ev("read", 0, "", "error")
                              ELSE EvRead(Val(px.Resp).data))
    /\ UNCHANGED <<ctx, call, conn, ret, open, bind>>
    /\ UNCHANGED peer

\* body, err := io.ReadAll(resp.Body); p.Body = body; defer resp.Body.Close()
ReadBody ==
    /\ pc = "read"
    /\ \E resp \in {Val(px.Resp)} : \E a \in {Abort(px, ctx, "reading the body failed")} :
          IF resp.readErr
          THEN Return(call, a.px, a.ctx, a.out, a.err,
                      Append(trace, Ev("read", 0, "", "error")), conn)
          ELSE /\ px' = [px EXCEPT !.Body = Some(resp.data)]
               /\ pc' = "resmods"
               /\ rng' = px.resMods
               /\ idx' = 1
               /\ trace' = Append(trace, EvRead(resp.data))
               /\ UNCHANGED <<ctx, call, conn, ret, open>>
    /\ UNCHANGED bind
    /\ UNCHANGED peer

\* Mutant of ResModStep: a failed modifier's error is dropped and the body
\* as it stands is sent.
ResModStepSendAnyway ==
    /\ pc = "resmods"
    /\ idx <= Len(rng)
    /\ LET r  == ApplyResMod(rng[idx], px, ctx)
           tr == Append(trace, Ev("res", idx, rng[idx], r.out))
       IN IF r.out = "nil"
          THEN /\ px' = r.px
               /\ ctx' = r.ctx
               /\ idx' = idx + 1
               /\ trace' = tr
               /\ UNCHANGED <<pc, call, rng, conn, ret, open>>
          ELSE Return(call, r.px, r.ctx, "nil", NULL, tr, "closed")
    /\ UNCHANGED bind
    /\ UNCHANGED peer

\* One iteration of "for _, resMod := range p.resMods".
ResModStep ==
    /\ pc = "resmods"
    /\ idx <= Len(rng)
    /\ \E r \in {ApplyResMod(rng[idx], px, ctx)} : \E a \in {Abort(r.px, r.ctx, r.msg)} :
       LET tr == Append(trace, Ev("res", idx, rng[idx], r.out))
       IN CASE r.out = "nil" ->
                 /\ px' = r.px
                 /\ ctx' = r.ctx
                 /\ idx' = idx + 1
                 /\ trace' = tr
                 /\ UNCHANGED <<pc, call, rng, conn, ret, open>>
            [] r.out = "error" -> Return(call, a.px, a.ctx, a.out, a.err, tr, "closed")
            [] r.out = "panic" -> Return(call, r.px, r.ctx, "panic", NULL, tr, "closed")
    /\ UNCHANGED bind
    /\ UNCHANGED peer

\* Mutant of ExecuteSend: an empty body is sent whatever was buffered.
ExecuteSendNothing ==
    /\ pc = "resmods"
    /\ idx > Len(rng)
    /\ Return(call, [px EXCEPT !.Body = Some(<<>>)], ctx, "nil", NULL,
              Append(trace, Ev("send", 0, "", "nil")), "closed")
    /\ UNCHANGED bind
    /\ UNCHANGED peer

\* _execute returns &p.Body; Execute sends it to the caller: p.Ctx.Send(*body).
ExecuteSend ==
    /\ pc = "resmods"
    /\ idx > Len(rng)
    /\ Return(call, px, ctx, "nil", NULL, Append(trace, Ev("send", 0, "", "nil")), "closed")
    /\ UNCHANGED bind
    /\ UNCHANGED peer

\* The worker whose steps are being taken.
Current ==
    [px |-> px, ctx |-> ctx, pc |-> pc, call |-> call, rng |-> rng, idx |-> idx,
     conn |-> conn, ret |-> ret, open |-> open, bind |-> bind, trace |-> trace]

\* Mutant of Switch: both workers use one instance.
SwitchShared ==
    /\ px' = px
    /\ ctx' = peer.ctx
    /\ pc' = peer.pc
    /\ call' = peer.call
    /\ rng' = peer.rng
    /\ idx' = peer.idx
    /\ conn' = peer.conn
    /\ ret' = peer.ret
    /\ open' = peer.open
    /\ bind' = peer.bind
    /\ trace' = peer.trace
    /\ peer' = Current

\* The host runs each inbound request on its own worker, with its own
\* instance; the scheduler leaves one worker where it is and goes on with the
\* other.
Switch ==
    /\ px' = peer.px
    /\ ctx' = peer.ctx
    /\ pc' = peer.pc
    /\ call' = peer.call
    /\ rng' = peer.rng
    /\ idx' = peer.idx
    /\ conn' = peer.conn
    /\ ret' = peer.ret
    /\ open' = peer.open
    /\ bind' = peer.bind
    /\ trace' = peer.trace
    /\ peer' = Current

(***************************************************************************)
(* Specifications.                                                         *)
(***************************************************************************)
Configure ==
    \/ \E mods \in SeqsUpTo(ReqChoices, MaxReqMods) : SetReqMods(mods)
    \/ \E m \in ReqChoices : AddReqMods(<<m>>)
    \/ \E mods \in SeqsUpTo(ResChoices, MaxResMods) : SetResMods(mods)
    \/ \E m \in ResChoices : AddResMods(<<m>>)

\* The steps of a call that is running.
Running ==
    \/ ReqModStep
    \/ Dispatch
    \/ ReadBody
    \/ ResModStep
    \/ ExecuteSend

Exchange ==
    \/ \E api \in {"Execute", "ExecuteAPIContent"} : ExecuteBegin(api)
    \/ Running

\* The orchestrator under every configuration, with one absolute and one
\* relative capture.
Next ==
    \/ Configure
    \/ \E c \in {AbsCapture, RelCapture}, r \in {<<>>, GoodReferer} : SetCtx(c, r)
    \/ Exchange

Spec == Init /\ [][Next]_vars

\* URL resolution over every capture and referer, with one modifier of each kind.
NextResolve ==
    \/ \E mods \in {<<"BuildReq">>} : SetReqMods(mods)
    \/ \E mods \in {<<"Rewrite">>} : SetResMods(mods)
    \/ \E c \in Captures, r \in Referers : SetCtx(c, r)
    \/ Exchange

SpecResolve == Init /\ [][NextResolve]_vars

\* Every configuration field set at set-up, then exchanges.
NextConfig ==
    \/ \E mods \in {<<"BuildReq">>, <<"BuildReq", "Fail">>} : SetReqMods(mods)
    \/ \E mods \in {<<"Rewrite">>, <<"Rewrite", "ResFail">>} : SetResMods(mods)
    \/ \E c \in Clients : SetClient(c)
    \/ SetVerbose
    \/ AddRuleset("rules")
    \/ \E c \in {AbsCapture, RelCapture}, r \in {<<>>, GoodReferer} : SetCtx(c, r)
    \/ Exchange

SpecConfig == Init /\ [][NextConfig]_vars

\* Request modifiers that rewrite the target URL, with a caller's own.
RewriteChoices ==
    {"BuildReq", "RequestWaybackMachine", "RequestArchiveIs", "ModifyDomainWithRegex",
     "DropScheme"}

\* Exchanges whose request modifiers rewrite the target URL.
NextRewrite ==
    \/ \E mods \in SeqsUpTo(RewriteChoices, MaxReqMods) : SetReqMods(mods)
    \/ \E mods \in {<<"Rewrite">>} : SetResMods(mods)
    \/ \E c \in {AbsCapture, RelCapture}, r \in {GoodReferer} : SetCtx(c, r)
    \/ Exchange

SpecRewrite == Init /\ [][NextRewrite]_vars

\* Request modifiers that append to the list they run from.
AppendingChoices == {"BuildReq", "MasqueradeAsGoogleBot", "RequestArchiveIs", "Again"}

\* Exchanges over lists whose modifiers append further modifiers.
NextAppending ==
    \/ \E mods \in SeqsUpTo(AppendingChoices, MaxReqMods) : SetReqMods(mods)
    \/ \E mods \in {<<"BypassCSP">>, <<"Rewrite", "BypassCSP">>} : SetResMods(mods)
    \/ \E c \in {AbsCapture}, r \in {<<>>} : SetCtx(c, r)
    \/ Exchange

\* A call that is running goes on: each modifier call and the dispatch return.
SpecAppending == Init /\ [][NextAppending]_vars /\ WF_vars(Running)

\* A second absolute capture, for the other worker's request.
OtherCapture == <<"F", ":", "/", "/", "h">>

\* Two workers, each with its own instance, in every interleaving of their steps.
NextWorkers ==
    \/ \E mods \in {<<"BuildReq">>, <<"BuildReq", "Fail">>} : SetReqMods(mods)
    \/ \E mods \in {<<"Rewrite">>} : SetResMods(mods)
    \/ \E c \in {AbsCapture, OtherCapture}, r \in {<<>>} : SetCtx(c, r)
    \/ Exchange
    \/ Switch

SpecWorkers == Init /\ [][NextWorkers]_vars

(***************************************************************************)
(* Properties.                                                             *)
(***************************************************************************)
ExecuteOps == {"Execute", "ExecuteAPIContent"}

\* The per-exchange fields are all cleared.
Cleared(p) ==
    IsNil(p.Ctx) /\ IsNil(p.URL) /\ IsNil(p.Req) /\ IsNil(p.Resp) /\ IsNil(p.Body)

\* Positions of the trace holding an event of this kind.
At(ev) == {i \in 1..Len(trace) : trace[i].ev = ev}

\* C1: within one exchange the request modifiers are invoked first, in list
\* order, before Client.Do is invoked; a response modifier is invoked, in list
\* order, only after Client.Do returned a response and io.ReadAll buffered the
\* whole body into Body.
C1_ModifierOrder ==
    /\ \A j \in At("req") :
          /\ trace[j].k = j
          /\ trace[j].kind = px.reqMods[j]
          /\ \A i \in 1..(j - 1) : trace[i].ev = "req"
    /\ \A j \in At("res") :
          /\ trace[j].kind = px.resMods[trace[j].k]
          /\ j > trace[j].k + 1
          /\ trace[j - trace[j].k].ev = "read" /\ trace[j - trace[j].k].out = "nil"
          /\ trace[j - trace[j].k - 1].ev = "do" /\ trace[j - trace[j].k - 1].out = "nil"
    /\ pc = "resmods" => ~IsNil(px.Body) /\ ~IsNil(px.Resp)

\* Two request modifiers ran, the dispatch returned, and two response modifiers ran.
C1_Witness ==
    /\ \E j \in At("req") : trace[j].k = 2
    /\ \E j \in At("res") : trace[j].k = 2

\* C2: once a request modifier returns an error, no later request modifier, no
\* response modifier and no dispatch is invoked in that exchange; once a
\* response modifier returns an error, no later response modifier is invoked.
C2_StopAtFirstError ==
    \A j \in At("req") \cup At("res") :
        trace[j].out = "error" => (j = Len(trace) /\ pc = "idle" /\ ~open)

\* The first of two request modifiers failed, with response modifiers configured.
C2_Witness ==
    /\ Len(trace) = 1 /\ trace[1].ev = "req" /\ trace[1].out = "error"
    /\ Len(px.reqMods) = 2 /\ Len(px.resMods) > 0
    /\ pc = "idle"

\* An exchange has ended: Execute returned, or SetCtx failed to resolve the URL.
ExchangeOver ==
    /\ pc = "idle"
    /\ \/ ret.op \in ExecuteOps
       \/ ret.op = "SetCtx" /\ ret.out # "nil"

\* C3: after any exchange, completed or aborted at any stage, Ctx, URL, Req,
\* Resp and Body are all cleared.
C3_ClearedAfterExchange == ExchangeOver => Cleared(px)

\* An exchange that sent a rewritten upstream body to the caller has ended.
C3_Witness ==
    /\ ExchangeOver /\ ret.out = "nil"
    /\ ~IsNil(ctx.sent) /\ Val(ctx.sent).kind = "body" /\ Len(Val(ctx.sent).data) = 2

\* C4: every failure is surfaced the same way: status 500 and the error page
\* "ProxyChain error for '<url>': <cause>" to the caller, and the per-exchange
\* state reset.
C4_EveryFailureIs500 ==
    (pc = "idle" /\ ret.out # "nil") =>
        /\ ret.out = "error"
        /\ ctx.status = 500
        /\ ~IsNil(ctx.sent) /\ Val(ctx.sent).kind = "error"
        /\ Cleared(px)

\* C5: modifiers appended by a running modifier are executed in the same pass,
\* after the modifiers scheduled before them and in append order: when the
\* pass is over, every entry of the list has been invoked, in list order.
C5_AppendedRunInSamePass ==
    /\ (\E d \in At("do") : trace[d].out = "nil") =>
          \A k \in 1..Len(px.reqMods) :
              k <= Len(trace) /\ trace[k].ev = "req" /\ trace[k].kind = px.reqMods[k]
    /\ At("send") # {} =>
          \A k \in 1..Len(px.resMods) :
              \E j \in At("res") : trace[j].k = k /\ trace[j].kind = px.resMods[k]

\* The body the response modifiers of the trace leave, from the body read.
RECURSIVE BodyAfter(_, _)
BodyAfter(tr, body) ==
    IF tr = <<>> THEN body
    ELSE BodyAfter(Tail(tr),
                   IF Head(tr).ev = "read" THEN Head(tr).data
                   ELSE IF Head(tr).ev = "res" /\ Head(tr).kind = "Rewrite" /\ Head(tr).out = "nil"
                        THEN <<"R">> \o body
                        ELSE body)

ParsedCapture(capture) == Parse(reqUrl(QueryUnescape(capture), capture))
AbsoluteCapture(capture) ==
    ParsedCapture(capture).ok /\ ParsedCapture(capture).url.Scheme # <<>>
RelativeCapture(capture) ==
    ParsedCapture(capture).ok /\ ParsedCapture(capture).url.Scheme = <<>>

\* The URL embedded in the referer's path.
EmbeddedURL(referer) == Parse(TrimPrefix(Parse(referer).url.Path, <<"/">>))
\* A referer of the form <proxy-origin>/<absolute-url>.
ProxiedReferer(referer) ==
    /\ Parse(referer).ok /\ Parse(referer).url.Host # <<>>
    /\ EmbeddedURL(referer).ok
    /\ EmbeddedURL(referer).url.Scheme # <<>> /\ EmbeddedURL(referer).url.Host # <<>>
\* A referer that is absent, unparseable or without a host.
UnusableReferer(referer) ==
    referer = <<>> \/ ~Parse(referer).ok \/ Parse(referer).url.Host = <<>>

\* SetCtx was the latest call.
JustBound == ret.op = "SetCtx" /\ ~IsNil(bind)

\* C6: a relative capture bound with a referer <proxy-origin>/<absolute-url>
\* resolves: the target URL has the scheme and host of the URL embedded in the
\* referer and the path and query of the capture, and the instance is Ready.
C6_RelativeResolves ==
    (JustBound /\ RelativeCapture(Val(bind).capture) /\ ProxiedReferer(Val(bind).referer)) =>
        /\ ret.out = "nil"
        /\ ~IsNil(px.Ctx) /\ ~IsNil(px.URL) /\ IsNil(px.abort_err)
        /\ Val(px.URL).Scheme = EmbeddedURL(Val(bind).referer).url.Scheme
        /\ Val(px.URL).Host = EmbeddedURL(Val(bind).referer).url.Host
        /\ Val(px.URL).Path = ParsedCapture(Val(bind).capture).url.Path
        /\ Val(px.URL).RawQuery = ParsedCapture(Val(bind).capture).url.RawQuery

\* C7: a capture that parses with a non-empty scheme resolves to exactly that
\* URL whatever the referer, and leaves the instance Ready with no cached error.
C7_AbsoluteResolves ==
    (JustBound /\ AbsoluteCapture(Val(bind).capture)) =>
        /\ ret.out = "nil"
        /\ ~IsNil(px.Ctx) /\ IsNil(px.abort_err)
        /\ px.URL = Some(ParsedCapture(Val(bind).capture).url)

\* C8: a relative capture bound with an absent, unparseable or host-less
\* referer fails with a resolution error reported to the caller, and no
\* request modifier and no dispatch is invoked in that exchange.
C8_UnusableRefererReported ==
    (~IsNil(bind) /\ RelativeCapture(Val(bind).capture)
                  /\ UnusableReferer(Val(bind).referer)) =>
        /\ Val(bind).out = "error"
        /\ Val(Val(bind).err).cause = "error parsing referer URL from req"
        /\ At("req") = {} /\ At("do") = {}
        /\ JustBound =>
              /\ ctx.status = 500
              /\ ~IsNil(ctx.sent) /\ Val(ctx.sent).kind = "error"

\* C9: Execute after a SetCtx that failed returns the cached resolution error
\* at once: no modifier, no dispatch, and the reset leaves the instance Idle.
C9_ExecuteAfterFailedBind ==
    (ret.op \in ExecuteOps /\ ~IsNil(bind) /\ Val(bind).out = "error") =>
        /\ ret.out = "error" /\ ret.err = Val(bind).err
        /\ trace = <<>>
        /\ pc = "idle" /\ Cleared(px) /\ IsNil(px.abort_err)

\* The exchange-pipeline configuration of the instance.
Config(p) == <<p.reqMods, p.resMods, p.Client, p.ruleset, p.verbose>>

\* C11: the reset, and so the step that ends a completed or aborted exchange,
\* leaves the request-modifier list, the response-modifier list, the client,
\* the rule set and the verbosity flag as they were.
C11_ResetKeepsConfig == [][ExchangeOver' => Config(px') = Config(px)]_vars

\* An exchange that sent a body has ended on an instance with every
\* configuration field set by the caller.
C11_Witness ==
    /\ ExchangeOver /\ ret.out = "nil"
    /\ px.reqMods # <<>> /\ px.resMods # <<>>
    /\ px.Client = Some("custom") /\ ~IsNil(px.ruleset) /\ px.verbose

\* This step invokes p.Client.Do.
DispatchInvoked ==
    /\ Len(trace') = Len(trace) + 1
    /\ trace'[Len(trace')].ev = "do"

\* C12: when the dispatch is invoked on a request the target URL has a non-empty scheme,
\* also after request modifiers rewrote it; an exchange whose target URL has
\* no scheme ends without a dispatch.
C12_SchemeAtDispatch ==
    [][(DispatchInvoked /\ ~IsNil(px.Req)) => Val(px.URL).Scheme # <<>>]_vars

\* Positions of the trace where the dispatch or the body read failed.
DispatchFailures == {i \in At("do") \cup At("read") : trace[i].out = "error"}

\* C13: a transport failure or a body-read failure ends the exchange: the
\* caller gets the 500 error page, no response modifier is invoked, and the
\* dispatch is invoked at most once in an exchange.
C13_DispatchFailureTerminal ==
    /\ Cardinality(At("do")) <= 1
    /\ DispatchFailures # {} =>
          /\ DispatchFailures = {Len(trace)}
          /\ At("res") = {}
          /\ pc = "idle" /\ ret.op \in ExecuteOps /\ ret.out = "error"
          /\ ctx.status = 500
          /\ ~IsNil(ctx.sent) /\ Val(ctx.sent).kind = "error"

\* Reading the upstream body failed with response modifiers configured.
C13_Witness ==
    /\ \E i \in At("read") : trace[i].out = "error"
    /\ px.resMods # <<>>

\* C14: with an empty response-modifier list, an exchange whose request
\* modifiers and dispatch succeeded sends the caller exactly the bytes read
\* from upstream.
C14_EmptyChainRoundTrip ==
    (ExchangeOver /\ ret.out = "nil" /\ px.resMods = <<>>) =>
        /\ ~IsNil(ctx.sent) /\ Val(ctx.sent).kind = "body"
        /\ \E i \in At("read") : Val(ctx.sent).data = trace[i].data

\* A non-empty upstream body went through an empty response-modifier list.
C14_Witness ==
    /\ ExchangeOver /\ ret.out = "nil" /\ px.resMods = <<>>
    /\ \E i \in At("read") : trace[i].data = <<"a">>

\* What _execute can hand back from this state of a running call.
Handbacks ==
    {Executed(px, ctx, "error", Some(WrapErr(<<>>, "failed"))),
     Executed(px, ctx, "panic", NULL)}
    \cup (IF IsNil(px.Body) THEN {} ELSE {Executed(px, ctx, "nil", NULL)})

C16_UnboundExecuteReturnsError ==
    (ret.op \in ExecuteOps /\ IsNil(bind)) =>
        /\ ret.out = "error"
        /\ Val(ret.err).cause = "proxyChain was called without setting a fiber Ctx"
        /\ trace = <<>>
        /\ pc = "idle" /\ Cleared(px)

\* C17: the request handed to the client at dispatch is set and is addressed
\* to the target URL as the request modifiers left it.
C17_RequestFollowsURL ==
    [][DispatchInvoked => (~IsNil(px.Req) /\ Val(px.Req).URL = Val(px.URL))]_vars

\* C18: every Execute or ExecuteAPIContent call terminates and leaves the
\* instance Idle, also when modifiers of the list append to it.
C18_ExecuteTerminates == (pc # "idle") ~> (pc = "idle")

\* A call returned after a modifier that appends itself to the running list ran.
C18_Witness ==
    /\ ExchangeOver /\ ret.out = "nil"
    /\ \E j \in At("req") : trace[j].kind = "Again"
    /\ Len(px.reqMods) > Cardinality(At("req"))

\* The target URL this worker's SetCtx resolved.
BoundURL(w) == extractUrl(w.px, Val(w.bind).capture, Val(w.bind).referer).URL

\* A worker's call in progress still has what its own exchange put in its
\* instance: the context and URL it bound, the request built from that URL,
\* the response of its own dispatch and the body of its own read.
OwnState(w) ==
    /\ w.pc # "idle" =>
          /\ ~IsNil(w.bind)
          /\ ~IsNil(w.px.Ctx)
          /\ w.px.URL = BoundURL(w)
    /\ w.pc \in {"read", "resmods"} =>
          /\ ~IsNil(w.px.Req) /\ Val(w.px.Req).URL = Val(BoundURL(w))
          /\ ~IsNil(w.px.Resp)
    /\ w.pc = "resmods" => w.px.Body = Some(BodyAfter(w.trace, <<>>))

\* A worker whose call returned nil sent its caller the body its own dispatch
\* fetched, as its own response modifiers left it.
OwnBody(w) ==
    (w.pc = "idle" /\ w.ret.op \in ExecuteOps /\ w.ret.out = "nil") =>
        /\ ~IsNil(w.ctx.sent) /\ Val(w.ctx.sent).kind = "body"
        /\ Val(w.ctx.sent).data = BodyAfter(w.trace, <<>>)
        /\ \E i \in 1..Len(w.trace) : w.trace[i].ev = "read" /\ w.trace[i].out = "nil"

\* C19: with one instance per inbound request, in every interleaving of the
\* steps of two concurrent exchanges each caller receives the body fetched for
\* its own resolved URL, and one exchange's abort or reset never clears or
\* alters the other instance's per-exchange state.
C19_WorkersIsolated ==
    \A w \in {Current, peer} : OwnState(w) /\ OwnBody(w)

\* One worker's exchange was aborted by a request modifier and reset while the
\* other, bound to a different URL, holds the body it read and is running its
\* response modifiers.
C19_Witness ==
    /\ ExchangeOver /\ ret.out = "error"
    /\ \E i \in At("req") : trace[i].out = "error"
    /\ peer.pc = "resmods" /\ peer.px.Body = Some(<<"a">>)
    /\ ~IsNil(bind) /\ Val(bind).capture # Val(peer.bind).capture

\* The instance abort is invoked on by the step being taken, as abort finds
\* it: from _validate_ctx_is_set, from SetCtx after extractUrl failed, or from
\* _execute after a modifier, the dispatch or the read failed.
AbortReceivers ==
    IF pc = "idle" /\ ret'.op \in ExecuteOps /\ IsNil(px.Ctx)
    THEN {px}
    ELSE IF pc = "idle" /\ pc' = "idle" /\ ret'.op = "SetCtx" /\ ret'.out # "nil"
    THEN {[px EXCEPT !.Ctx = Some("ctx"),
                     !.URL = extractUrl(px, Val(bind').capture, Val(bind').referer).URL]}
    ELSE IF pc = "reqmods" /\ idx <= Len(rng) /\ ApplyReqMod(rng[idx], px).out = "error"
    THEN {ApplyReqMod(rng[idx], px).px}
    ELSE IF pc = "reqmods" /\ idx > Len(rng) /\ pc' = "idle"
            /\ trace'[Len(trace')].out = "error"
    THEN {px}
    ELSE IF pc = "read" /\ Val(px.Resp).readErr
    THEN {px}
    ELSE IF pc = "resmods" /\ idx <= Len(rng) /\ ApplyResMod(rng[idx], px, ctx).out = "error"
    THEN {ApplyResMod(rng[idx], px, ctx).px}
    ELSE {}

\* C20: whenever abort is invoked (from SetCtx on a resolution failure, from
\* _validate_ctx_is_set, or from _execute on a modifier or dispatch failure),
\* both Ctx and URL are bound, so that setting the 500 status and formatting
\* the error message dereference no unset field.
C20_AbortFieldsBound ==
    [][\A p \in AbortReceivers : ~IsNil(p.Ctx) /\ ~IsNil(p.URL)]_vars

\* SetCtx has just bound a context whose capture resolves to an absolute URL.
BoundAbsolute ==
    /\ pc = "idle" /\ JustBound /\ ret.out = "nil"
    /\ AbsoluteCapture(Val(bind).capture)

\* The step being taken is a call of Execute or ExecuteAPIContent.
ExecuteCalled == pc = "idle" /\ (pc' = "reqmods" \/ ret'.op \in ExecuteOps)

\* C21: after SetCtx binds a context whose capture resolves to an absolute
\* URL, the abort-error slot is empty and a following Execute proceeds to the
\* request-modifier phase, whatever was done on the instance before, an
\* earlier failed SetCtx not followed by an Execute included.
C21_BindClearsAbortErr ==
    [][BoundAbsolute => /\ IsNil(px.abort_err)
                        /\ ExecuteCalled => pc' = "reqmods"]_vars

\* C22: with the lists configured once, an exchange leaves the request- and
\* the response-modifier list as they were, in length and contents, so that
\* every later exchange on the instance invokes the same modifiers; this
\* includes exchanges whose composite modifiers (MasqueradeAsGoogleBot,
\* RequestArchiveIs, BypassCSP) call AddReqMods / AddResMods while they run.
C22_ExchangeKeepsLists ==
    [][pc # "idle" => (px'.reqMods = px.reqMods /\ px'.resMods = px.resMods)]_vars

\* C23: on every path of _execute after the dispatch returned a response, the
\* upstream response body is closed before _execute returns, the path on which
\* reading the body fails and the path on which a response modifier fails
\* included.
C23_BodyClosedOnReturn ==
    (pc = "idle" /\ ret.op \in ExecuteOps /\ \E d \in At("do") : trace[d].out = "nil") =>
        conn = "closed"

=============================================================================
